---- MODULE Spec2Model ----
(***************************************************************************)
(* Model of the Google Chat notification action (src/src/main.js).         *)
(*                                                                         *)
(* Representation of JavaScript values:                                    *)
(*   - a string is a sequence of text chunks.  Strings that come from the  *)
(*     environment are one character per chunk; a literal of the source    *)
(*     that is only ever concatenated is written as one chunk;             *)
(*   - a value whose type is decided at run time (an environment variable  *)
(*     that may be unset, context.eventName, issue.number, the result of   *)
(*     the lookup in `events`, error.response.data) is a tagged record:    *)
(*     Undefined, Str(s), Num(n), ObjectCtor, ObjectProto.                 *)
(***************************************************************************)
EXTENDS FiniteSets, Integers, Sequences, TLC

VARIABLES env, ctx, pc, vals, card, body, requests, response, ret, exc,
          failed, debug, runResult

vars == <<env, ctx, pc, vals, card, body, requests, response, ret, exc,
          failed, debug, runResult>>

-----------------------------------------------------------------------------
(* Bounds *)

\* longest display name tried
MaxNameLen == 46

\* name.length >= 45 shows the Name widget
NameWidgetMinLen == 45

-----------------------------------------------------------------------------
(* JavaScript values *)

Undefined == [t |-> "undefined"]
Str(s) == [t |-> "string", s |-> s]
Num(n) == [t |-> "number", n |-> n]
\* Object.prototype.constructor and Object.prototype, which every object
\* literal inherits under the keys "constructor" and "__proto__"
ObjectCtor == [t |-> "function", id |-> "Object"]
ObjectProto == [t |-> "object", id |-> "Object.prototype"]

UpperChars == <<"A","B","C","D","E","F","G","H","I","J","K","L","M",
                "N","O","P","Q","R","S","T","U","V","W","X","Y","Z">>
LowerChars == <<"a","b","c","d","e","f","g","h","i","j","k","l","m",
                "n","o","p","q","r","s","t","u","v","w","x","y","z">>

LowerChar(c) ==
  IF \E i \in 1..Len(UpperChars) : UpperChars[i] = c
  THEN LowerChars[CHOOSE i \in 1..Len(UpperChars) : UpperChars[i] = c]
  ELSE c

UpperChar(c) ==
  IF \E i \in 1..Len(LowerChars) : LowerChars[i] = c
  THEN UpperChars[CHOOSE i \in 1..Len(LowerChars) : LowerChars[i] = c]
  ELSE c

\* String.prototype.toLowerCase / toUpperCase
toLowerCase(s) == [i \in 1..Len(s) |-> LowerChar(s[i])]
toUpperCase(s) == [i \in 1..Len(s) |-> UpperChar(s[i])]

MinOf(a, b) == IF a < b THEN a ELSE b

\* String.prototype.substring(start, end) for 0 <= start <= end
substring(s, start, end) == SubSeq(s, start + 1, MinOf(end, Len(s)))
\* String.prototype.substring(start)
substringFrom(s, start) == SubSeq(s, start + 1, Len(s))

IsSpace(c) == c = " "

\* String.prototype.trim
RECURSIVE trimStart(_)
trimStart(s) ==
  IF s # <<>> /\ IsSpace(Head(s)) THEN trimStart(Tail(s)) ELSE s
RECURSIVE trimEnd(_)
trimEnd(s) ==
  IF s # <<>> /\ IsSpace(s[Len(s)]) THEN trimEnd(SubSeq(s, 1, Len(s) - 1)) ELSE s
trim(s) == trimEnd(trimStart(s))

Digits == <<"0","1","2","3","4","5","6","7","8","9">>

\* decimal rendering of a non-negative integer
RECURSIVE DecStr(_)
DecStr(n) ==
  IF n < 10 THEN <<Digits[n + 1]>>
  ELSE DecStr(n \div 10) \o <<Digits[(n % 10) + 1]>>

\* what `${v}` renders inside a template literal
TemplateStr(v) ==
  CASE v.t = "string" -> v.s
    [] v.t = "number" -> DecStr(v.n)
    [] v.t = "undefined" -> <<"undefined">>
    [] v.t = "function" -> <<"function Object() { [native code] }">>
    [] v.t = "object" -> <<"[object Object]">>

\* JavaScript truthiness of a tagged value
Truthy(v) ==
  CASE v.t = "string" -> v.s # <<>>
    [] v.t = "number" -> v.n # 0
    [] v.t = "undefined" -> FALSE
    [] v.t = "function" -> TRUE
    [] v.t = "object" -> TRUE

\* a || b
OrElse(a, b) == IF Truthy(a) THEN a ELSE b

-----------------------------------------------------------------------------
(* Module-level tables *)

colors == [success |-> <<"#2cbe4e">>,
           failure |-> <<"#ff0000">>,
           other   |-> <<"#ffc107">>]

events == [pull_request      |-> <<"p","u","l","l","_","r","e","q","u","e","s","t">>,
           push              |-> <<"p","u","s","h">>,
           workflow_dispatch |-> <<"w","o","r","k","f","l","o","w","_",
                                   "d","i","s","p","a","t","c","h">>]

\* events[key]: the own properties of the table, then the properties that an
\* object literal inherits from Object.prototype, else undefined.  The key is
\* always lower-cased first, and "constructor" and "__proto__" are the only
\* inherited property names without an upper-case letter.
eventsLookup(key) ==
  CASE key = events.pull_request -> Str(events.pull_request)
    [] key = events.push -> Str(events.push)
    [] key = events.workflow_dispatch -> Str(events.workflow_dispatch)
    [] key = <<"c","o","n","s","t","r","u","c","t","o","r">> -> ObjectCtor
    [] key = <<"_","_","p","r","o","t","o","_","_">> -> ObjectProto
    [] OTHER -> Undefined

-----------------------------------------------------------------------------
(* createCard *)

\* lines 75-87: color of the status text
statusColorOf(validationStatus) ==
  LET statusLower == toLowerCase(validationStatus)
  IN  IF statusLower = <<"s","u","c","c","e","s","s">> THEN colors.success
      ELSE IF statusLower = <<"f","a","i","l","u","r","e">> THEN colors.failure
      ELSE colors.other

\* lines 75-87: status kind used in the status icon URL
statusTypeOf(validationStatus) ==
  LET statusLower == toLowerCase(validationStatus)
  IN  IF statusLower = <<"s","u","c","c","e","s","s">> THEN statusLower
      ELSE IF statusLower = <<"f","a","i","l","u","r","e">> THEN statusLower
      ELSE <<"c","a","n","c","e","l","l","e","d">>

\* variant: full title-case instead of upper-casing the first character only
statusNameTitleCase(validationStatus) ==
  toUpperCase(substring(validationStatus, 0, 1))
    \o toLowerCase(substringFrom(validationStatus, 1))

\* line 77: status text, first character upper-cased
statusNameOf(validationStatus) ==
  toUpperCase(substring(validationStatus, 0, 1)) \o substringFrom(validationStatus, 1)

\* variant: the fallback is events.workflow_dispatch
eventTypeDefaultsToDispatch(eventName) ==
  OrElse(eventsLookup(toLowerCase(OrElse(eventName, Str(<<>>)).s)),
         Str(events.workflow_dispatch))

\* line 89: events[(eventName || '').toLowerCase()] || events.push
eventTypeOf(eventName) ==
  OrElse(eventsLookup(toLowerCase(OrElse(eventName, Str(<<>>)).s)), Str(events.push))

\* lines 90-97
eventNameFmtOf(eventType) ==
  IF eventType = Str(events.pull_request) THEN <<"Pull Request">>
  ELSE IF eventType = Str(events.push) THEN <<"Push">>
  ELSE <<"Workflow Dispatch">>

\* variant: the commit path is chosen for push only
eventPathPushIsCommit(eventType, number, sha) ==
  IF eventType = Str(events.push)
  THEN <<"/commit/">> \o sha
  ELSE <<"/pull/">> \o TemplateStr(number)

\* line 99
eventPathOf(eventType, number, sha) ==
  IF eventType = Str(events.pull_request)
  THEN <<"/pull/">> \o TemplateStr(number)
  ELSE <<"/commit/">> \o sha

\* line 100
repoUrlOf(owner, repo) == <<"https://github.com/">> \o owner \o <<"/">> \o repo

\* variant: strict comparison
showNameWidgetStrict(name) == Len(name) > NameWidgetMinLen

\* line 103
showNameWidgetOf(name) == Len(name) >= NameWidgetMinLen

\* lines 104-113
nameWidgetsOf(name) ==
  IF showNameWidgetOf(name)
  THEN << [decoratedText |-> [topLabel |-> <<"Name">>, text |-> name, wrapText |-> TRUE]] >>
  ELSE << >>

AssetsUrl == <<"https://raw.githubusercontent.com/ciro-maciel/google-chat-github-action/main/assets/">>

openLink(url) == [openLink |-> [url |-> url]]

\* lines 157-163 (the two emoji that end the placeholder text are left out)
standardizationSection ==
  [header |-> <<"Code Standardization">>,
   collapsible |-> FALSE,
   widgets |-> << [textParagraph |-> [text |-> <<"is coming...">>]] >>]

\* lines 167-188
summarySection(validationId, validationUrl, validationDetails) ==
  [header |-> <<"Summary">>,
   collapsible |-> TRUE,
   widgets |-> <<
     [decoratedText |->
        [icon |-> [iconUrl |-> AssetsUrl \o <<"summary.png">>],
         topLabel |-> <<"Name">>,
         text |-> validationId,
         button |-> [text |-> <<"Open Details">>, onClick |-> openLink(validationUrl)]]],
     [textParagraph |-> [text |-> validationDetails]] >>]

\* lines 74-191
createCard(p) ==
  LET statusColor  == statusColorOf(p.validationStatus)
      statusName   == statusNameOf(p.validationStatus)
      statusType   == statusTypeOf(p.validationStatus)
      eventType    == eventTypeOf(p.eventName)
      eventNameFmt == eventNameFmtOf(eventType)
      eventPath    == eventPathOf(eventType, p.number, p.sha)
      repoUrl      == repoUrlOf(p.owner, p.repo)
      eventUrl     == repoUrl \o eventPath
      checksUrl    == repoUrl \o eventPath \o <<"/checks">>
  IN
  [header |->
     [title |-> p.name,
      subtitle |-> p.owner \o <<"/">> \o p.repo,
      imageUrl |-> <<"https://github.githubassets.com/assets/GitHub-Mark-ea2971cee799.png">>,
      imageType |-> <<"CIRCLE">>],
   sections |-> <<
     [widgets |-> <<
        [decoratedText |->
           [icon |-> [iconUrl |-> AssetsUrl \o <<"status_">> \o statusType \o <<".png">>],
            topLabel |-> <<"Status">>,
            text |-> <<"<font color=\"">> \o statusColor \o <<"\">">> \o statusName \o <<"</font>">>,
            button |-> [text |-> <<"Open Job">>, onClick |-> openLink(checksUrl)]]],
        [decoratedText |->
           [icon |-> [iconUrl |-> AssetsUrl \o <<"event_">> \o TemplateStr(eventType) \o <<".png">>],
            topLabel |-> <<"Event">>,
            text |-> eventNameFmt,
            button |-> [text |-> <<"Open Event">>, onClick |-> openLink(eventUrl)]]],
        [decoratedText |->
           [icon |-> [iconUrl |-> AssetsUrl \o <<"ref.png">>],
            topLabel |-> <<"Ref">>,
            text |-> p.ref]],
        [decoratedText |->
           [icon |-> [iconUrl |-> AssetsUrl \o <<"actor.png">>],
            topLabel |-> <<"Actor">>,
            text |-> p.actor]] >> \o nameWidgetsOf(p.name)],
     standardizationSection,
     summarySection(p.validationId, p.validationUrl, p.validationDetails) >>]

\* lines 193-195: { text: '', cardsV2: [{ cardId: name, card: { name, ...card } }] }
createBody(name, c) ==
  [text |-> <<>>,
   cardsV2 |-> << [cardId |-> name,
                   card |-> [name |-> name, header |-> c.header, sections |-> c.sections]] >>]

-----------------------------------------------------------------------------
(* The environment one invocation runs in *)

InputNames == <<"name", "url", "validationId", "validationStatus",
                "validationUrl", "validationDetails">>

Rep(c, n) == [i \in 1..n |-> c]

\* display names around the Name-widget threshold, plus a short one
NameLens == {1} \cup ((NameWidgetMinLen - 1)..MaxNameLen)

NameInputs ==
  {Undefined, Str(<<" ">>)} \cup {Str(Rep("n", k)) : k \in NameLens}

StatusInputs ==
  {Undefined, Str(<<" ">>),
   Str(<<"s","u","c","c","e","s","s">>), Str(<<"S","U","C","C","E","S","S">>),
   Str(<<"f","a","i","l","u","r","e">>), Str(<<"F","a","i","l","u","r","e">>),
   Str(<<"c","a","n","c","e","l","l","e","d">>),
   Str(<<"C","A","N","C","E","L","L","E","D">>),
   Str(<<"u","n","k","n","o","w","n">>)}

UrlInputs == {Undefined, Str(<<>>), Str(<<"h","o","o","k">>)}

\* the values INPUT_<NAME> can have, by position in InputNames
InputDomain ==
  << NameInputs,
     UrlInputs,
     {Undefined, Str(<<"i","d">>)},
     StatusInputs,
     {Undefined, Str(<<"v","u","r","l">>)},
     {Undefined, Str(<<" ","d","e","t"," ">>)} >>

EventNames ==
  {Undefined, Str(<<>>),
   Str(events.push), Str(<<"P","U","S","H">>),
   Str(events.pull_request),
   Str(<<"P","u","l","l","_","R","e","q","u","e","s","t">>),
   Str(events.workflow_dispatch),
   Str(<<"w","e","i","r","d","_","e","v","e","n","t">>),
   Str(<<"c","o","n","s","t","r","u","c","t","o","r">>),
   Str(<<"_","_","p","r","o","t","o","_","_">>),
   Str(<<"t","o","S","t","r","i","n","g">>)}

Numbers == {Undefined, Num(7), Num(42)}

\* github.context of the run
Contexts ==
  [owner : {<<"o","r","g">>}, repo : {<<"a","p","p">>},
   eventName : EventNames, sha : {<<"a","b","c","1","2","3">>},
   ref : {<<"refs/heads/main">>}, actor : {<<"octocat">>},
   workflow : {<<"CI">>}, number : Numbers]

\* the outcomes of the HTTP exchange: a response with a status and a body, or
\* no response at all
Outcomes ==
  [kind : {"response"}, status : {200, 204, 404, 500},
   data : {Str(<<>>), Str(<<"e","r","r">>)}]
  \cup {[kind |-> "network"]}

\* axios' default validateStatus
validateStatus(status) == status >= 200 /\ status < 300

\* JSON.stringify, kept symbolic
JSONstringify(v) == [json |-> v]

None == [t |-> "none"]

-----------------------------------------------------------------------------
(* run *)

Init ==
  /\ env \in InputDomain[1] \X InputDomain[2] \X InputDomain[3] \X
              InputDomain[4] \X InputDomain[5] \X InputDomain[6]
  /\ ctx \in Contexts
  /\ pc = "getInput"
  /\ vals = <<>>
  /\ card = None
  /\ body = None
  /\ requests = <<>>
  /\ response = None
  /\ ret = <<>>
  /\ exc = <<>>
  /\ failed = <<>>
  /\ debug = <<>>
  /\ runResult = "pending"

\* variant: the input is read without { required: true }
GetInputOptional(i) ==
  /\ pc = "getInput"
  /\ Len(vals) = i - 1
  /\ vals' = Append(vals, trim(OrElse(env[i], Str(<<>>)).s))
  /\ pc' = IF i = 6 THEN "sendNotification" ELSE "getInput"
  /\ UNCHANGED <<env, ctx, card, body, requests, response, ret, exc, failed, debug, runResult>>

\* lines 23-29: core.getInput(InputNames[i], { required: true })
GetInput(i) ==
  /\ pc = "getInput"
  /\ Len(vals) = i - 1
  /\ LET val == OrElse(env[i], Str(<<>>)).s
     IN  IF val = <<>>
         THEN /\ exc' = <<[origin |-> "getInput",
                           message |-> <<"Input required and not supplied: ", InputNames[i]>>]>>
              /\ pc' = "catch"
              /\ vals' = vals
         ELSE /\ vals' = Append(vals, trim(val))
              /\ pc' = IF i = 6 THEN "sendNotification" ELSE "getInput"
              /\ exc' = exc
  /\ UNCHANGED <<env, ctx, card, body, requests, response, ret, failed, debug, runResult>>

\* lines 43-61: the argument sendNotification passes to createCard
CardParams(name) ==
  [name |-> name,
   owner |-> ctx.owner,
   repo |-> ctx.repo,
   eventName |-> ctx.eventName,
   ref |-> ctx.ref,
   actor |-> ctx.actor,
   workflow |-> ctx.workflow,
   sha |-> ctx.sha,
   number |-> ctx.number,
   validationId |-> vals[3],
   validationStatus |-> vals[4],
   validationUrl |-> vals[5],
   validationDetails |-> vals[6]]

\* lines 42-62: sendNotification builds the card and the request body
BuildRequest ==
  /\ pc = "sendNotification"
  /\ card' = createCard(CardParams(vals[1]))
  /\ body' = createBody(vals[1], createCard(CardParams(vals[1])))
  /\ pc' = "post"
  /\ UNCHANGED <<env, ctx, vals, requests, response, ret, exc, failed, debug, runResult>>

\* line 65: axios.post(url, body) is issued and awaited
AxiosPost ==
  /\ pc = "post"
  /\ requests' = Append(requests, [url |-> vals[2], data |-> body])
  /\ pc' = "await"
  /\ UNCHANGED <<env, ctx, vals, card, body, response, ret, exc, failed, debug, runResult>>

\* lines 65-67: the promise fulfils
PostFulfilled(o) ==
  /\ pc = "await"
  /\ o.kind = "response" /\ validateStatus(o.status)
  /\ response' = o
  /\ debug' = Append(debug, [by |-> "sendNotification",
                             text |-> <<"request success with status: ">> \o DecStr(o.status)])
  /\ ret' = <<TRUE>>
  /\ pc' = "returned"
  /\ UNCHANGED <<env, ctx, vals, card, body, requests, exc, failed, runResult>>

\* variant: a rejected POST is tried a second time
PostRejectedRetry(o) ==
  /\ pc = "await"
  /\ ~(o.kind = "response" /\ validateStatus(o.status))
  /\ IF Len(requests) < 2
     THEN /\ pc' = "post"
          /\ UNCHANGED <<response, debug, ret>>
     ELSE /\ response' = o
          /\ LET data == IF o.kind = "response" THEN o.data ELSE Undefined
             IN  debug' = Append(debug, [by |-> "sendNotification",
                                         text |-> <<"request failed with error, body: , response:">>,
                                         body |-> JSONstringify(body),
                                         response |-> JSONstringify(OrElse(data, Str(<<>>)))])
          /\ ret' = <<FALSE>>
          /\ pc' = "returned"
  /\ UNCHANGED <<env, ctx, vals, card, body, requests, exc, failed, runResult>>

\* variant: the rejection is not caught inside sendNotification
PostRejectedThrows(o) ==
  /\ pc = "await"
  /\ ~(o.kind = "response" /\ validateStatus(o.status))
  /\ response' = o
  /\ exc' = <<[origin |-> "sendNotification", message |-> <<"Request failed">>]>>
  /\ pc' = "catch"
  /\ UNCHANGED <<env, ctx, vals, card, body, requests, ret, failed, debug, runResult>>

\* variant: e.response.data is logged without the `|| ''` fallback
PostRejectedNoFallback(o) ==
  /\ pc = "await"
  /\ ~(o.kind = "response" /\ validateStatus(o.status))
  /\ response' = o
  /\ LET data == IF o.kind = "response" THEN o.data ELSE Undefined
     IN  debug' = Append(debug, [by |-> "sendNotification",
                                 text |-> <<"request failed with error, body: , response:">>,
                                 body |-> JSONstringify(body),
                                 response |-> JSONstringify(data)])
  /\ ret' = <<FALSE>>
  /\ pc' = "returned"
  /\ UNCHANGED <<env, ctx, vals, card, body, requests, exc, failed, runResult>>

\* lines 68-71: the promise rejects
PostRejected(o) ==
  /\ pc = "await"
  /\ ~(o.kind = "response" /\ validateStatus(o.status))
  /\ response' = o
  /\ LET data == IF o.kind = "response" THEN o.data ELSE Undefined
     IN  debug' = Append(debug, [by |-> "sendNotification",
                                 text |-> <<"request failed with error, body: , response:">>,
                                 body |-> JSONstringify(body),
                                 response |-> JSONstringify(OrElse(data, Str(<<>>)))])
  /\ ret' = <<FALSE>>
  /\ pc' = "returned"
  /\ UNCHANGED <<env, ctx, vals, card, body, requests, exc, failed, runResult>>

\* variant: the returned flag is not tested
ReportResultSwallows ==
  /\ pc = "returned"
  /\ debug' = Append(debug, [by |-> "run", text |-> <<"Sent notification: ">> \o vals[1]])
  /\ failed' = failed
  /\ pc' = "done"
  /\ runResult' = "fulfilled"
  /\ UNCHANGED <<env, ctx, vals, card, body, requests, response, ret, exc>>

\* lines 31-36: run reports what sendNotification returned
ReportResult ==
  /\ pc = "returned"
  /\ IF ret = <<FALSE>>
     THEN /\ failed' = Append(failed, [by |-> "run",
                                       text |-> <<"error sending notification to google chat">>])
          /\ debug' = debug
     ELSE /\ debug' = Append(debug, [by |-> "run",
                                     text |-> <<"Sent notification: ">> \o vals[1]])
          /\ failed' = failed
  /\ pc' = "done"
  /\ runResult' = "fulfilled"
  /\ UNCHANGED <<env, ctx, vals, card, body, requests, response, ret, exc>>

\* lines 37-39: the catch of run
Catch ==
  /\ pc = "catch"
  /\ failed' = Append(failed, [by |-> "run",
                               text |-> <<"error sending notification to google chat: ">>,
                               e |-> exc[1]])
  /\ pc' = "done"
  /\ runResult' = "fulfilled"
  /\ UNCHANGED <<env, ctx, vals, card, body, requests, response, ret, exc, debug>>

Next ==
  \/ \E i \in 1..6 : GetInput(i)
  \/ BuildRequest
  \/ AxiosPost
  \/ \E o \in Outcomes : PostFulfilled(o)
  \/ \E o \in Outcomes : PostRejected(o)
  \/ ReportResult
  \/ Catch

Spec == Init /\ [][Next]_vars

\* The runs of the entry point alone: every input unset, empty or present,
\* under one push and one pull_request context.
RunInputs(i) == {Undefined, Str(<<>>), Str(<<InputNames[i]>>)}

RunInit ==
  /\ env \in RunInputs(1) \X RunInputs(2) \X RunInputs(3) \X
              RunInputs(4) \X RunInputs(5) \X RunInputs(6)
  /\ ctx \in {c \in Contexts : /\ c.eventName \in {Str(events.push), Str(events.pull_request)}
                               /\ c.number = Num(42)}
  /\ pc = "getInput"
  /\ vals = <<>>
  /\ card = None
  /\ body = None
  /\ requests = <<>>
  /\ response = None
  /\ ret = <<>>
  /\ exc = <<>>
  /\ failed = <<>>
  /\ debug = <<>>
  /\ runResult = "pending"

\* the HTTP exchange settles and the event loop runs every continuation
FairSpec == RunInit /\ [][Next]_vars /\ WF_vars(Next)

-----------------------------------------------------------------------------
(* Vocabulary of the properties *)

\* input i is missing: INPUT_<NAME> is unset or empty
Missing(i) == env[i] = Undefined \/ env[i] = Str(<<>>)
AnyMissing == \E i \in 1..6 : Missing(i)

Rejected == response # None /\ (response.kind = "network" \/ response.status \notin 200..299)

sSuccess == <<"s","u","c","c","e","s","s">>
sFailure == <<"f","a","i","l","u","r","e">>

statusWidget == card.sections[1].widgets[1].decoratedText
eventWidget == card.sections[1].widgets[2].decoratedText
checksUrlOfCard == statusWidget.button.onClick.openLink.url
eventUrlOfCard == eventWidget.button.onClick.openLink.url

\* <font color="color">label</font>
StatusText(color, label) ==
  <<"<font color=\"">> \o color \o <<"\">">> \o label \o <<"</font>">>

StatusIcon(kind) == AssetsUrl \o <<"status_">> \o kind \o <<".png">>
EventIcon(kind) == AssetsUrl \o <<"event_">> \o kind \o <<".png">>

\* the event name as the card builder compares it
eventKey ==
  IF ctx.eventName = Undefined THEN <<>> ELSE toLowerCase(ctx.eventName.s)

GenericFailure == [by |-> "run", text |-> <<"error sending notification to google chat">>]

-----------------------------------------------------------------------------
(* Properties *)

\* C1: when one of the six required inputs is missing, no POST is ever issued
\* and the finished run has reported a failure; a POST is only issued once
\* all six inputs have been read.
C1_ValidationPrecedesPost ==
  /\ AnyMissing => requests = <<>>
  /\ AnyMissing /\ pc = "done" => Len(failed) = 1
  /\ requests # <<>> => Len(vals) = 6

\* the last input is the missing one: the five before it were read
C1_Witness ==
  /\ pc = "done"
  /\ Missing(6)
  /\ Len(vals) = 5
  /\ requests = <<>>

\* C2: a run issues at most one POST, none after a failed one, and a finished
\* run whose six inputs are all present has issued exactly one.
C2_ExactlyOnePost ==
  /\ Len(requests) <= 1
  /\ pc = "done" /\ ~AnyMissing => Len(requests) = 1
  /\ ret = <<FALSE>> => Len(requests) = 1 /\ pc \in {"returned", "done"}

C2_Witness ==
  /\ pc = "done"
  /\ Rejected
  /\ Len(requests) = 1

\* C3: sendNotification returns true exactly when the POST got a 2xx
\* response, false for any other response or a transport error, and no
\* exception leaves it: after the POST is issued the catch of run is never
\* entered.
C3_SendNotificationResult ==
  /\ ret \in {<<>>, <<TRUE>>, <<FALSE>>}
  /\ ret # <<>> <=> response # None
  /\ ret = <<TRUE>> => response.kind = "response" /\ response.status \in 200..299
  /\ ret = <<FALSE>> => Rejected
  /\ pc \in {"returned", "done"} /\ requests # <<>> => ret # <<>>
  /\ card # None => pc # "catch" /\ exc = <<>>

C3_Witness ==
  /\ ret = <<FALSE>>
  /\ response.kind = "response"
  /\ response.status = 500

C4_Outcome ==
  /\ Len(failed) <= 1
  /\ pc # "done" => failed = <<>> /\ runResult = "pending"
  /\ pc # "done" => \A k \in 1..Len(debug) : debug[k].by # "run"
  /\ pc = "done" =>
       /\ runResult = "fulfilled"
       /\ requests # <<>> => response # None
       /\ Len(failed) = 1 <=> (AnyMissing \/ ret = <<FALSE>> \/ exc # <<>>)
       /\ Rejected => Len(failed) = 1
       /\ failed = <<>> => ret = <<TRUE>> /\ exc = <<>>

\* C4: every run ends, settled and never rejected, with exactly one outcome
\* that is reported only after the POST (if any) has resolved: the failure
\* signal is raised once if an input is missing, sendNotification returned
\* false or an exception was caught, and not at all otherwise.
C4_OneOutcome == []C4_Outcome /\ <>[](pc = "done")

\* silent success
C4_Witness ==
  /\ pc = "done"
  /\ failed = <<>>
  /\ ret = <<TRUE>>
  /\ Len(debug) = 2

\* the raw status with only its first character upper-cased
Capitalized(v) == IF v = <<>> THEN <<>> ELSE <<UpperChar(v[1])>> \o Tail(v)

\* C5 as stated: success is rendered green and failure red, each with its
\* capitalized status as label, and for any other status the rendered label
\* is the literal word "Cancelled" in amber.
C5_LabelForcedCancelled ==
  card # None =>
    LET lower == toLowerCase(vals[4])
    IN  statusWidget.text =
          IF lower = sSuccess
          THEN StatusText(<<"#2cbe4e">>, Capitalized(vals[4]))
          ELSE IF lower = sFailure
          THEN StatusText(<<"#ff0000">>, Capitalized(vals[4]))
          ELSE StatusText(<<"#ffc107">>, <<"C","a","n","c","e","l","l","e","d">>)

\* C5 amended: the color is green / red / amber by the lower-cased status; the
\* label is, in every branch, the raw status with its first character
\* upper-cased; what the third branch forces to "cancelled" is the status
\* icon.
C5_StatusMapping ==
  card # None =>
    LET lower == toLowerCase(vals[4])
        color == IF lower = sSuccess THEN <<"#2cbe4e">>
                 ELSE IF lower = sFailure THEN <<"#ff0000">>
                 ELSE <<"#ffc107">>
        kind  == IF lower \in {sSuccess, sFailure} THEN lower
                 ELSE <<"c","a","n","c","e","l","l","e","d">>
    IN  /\ statusWidget.text = StatusText(color, Capitalized(vals[4]))
        /\ statusWidget.icon.iconUrl = StatusIcon(kind)
        /\ statusWidget.topLabel = <<"Status">>
        /\ vals[4] = sSuccess =>
             statusWidget.text = StatusText(<<"#2cbe4e">>, <<"S","u","c","c","e","s","s">>)
        /\ vals[4] = sFailure =>
             statusWidget.text = StatusText(<<"#ff0000">>, <<"F","a","i","l","u","r","e">>)
        /\ vals[4] = <<"u","n","k","n","o","w","n">> =>
             statusWidget.text = StatusText(<<"#ffc107">>, <<"U","n","k","n","o","w","n">>)

C5_Witness ==
  /\ card # None
  /\ vals[4] = <<"C","A","N","C","E","L","L","E","D">>
  /\ statusWidget.text = StatusText(<<"#ffc107">>, <<"C","A","N","C","E","L","L","E","D">>)

\* C6 as stated: every event name that is neither pull_request nor push is
\* labelled "Workflow Dispatch".
C6_UnrecognizedIsDispatch ==
  card # None =>
    eventWidget.text =
      IF eventKey = events.pull_request THEN <<"Pull Request">>
      ELSE IF eventKey = events.push THEN <<"Push">>
      ELSE <<"Workflow Dispatch">>

\* C6 amended: pull_request is labelled "Pull Request"; workflow_dispatch is
\* labelled "Workflow Dispatch", as are the two names the lookup resolves to
\* an inherited object (constructor, __proto__); push and every other value
\* (unrecognized, empty, absent) is labelled "Push", so an unrecognized event
\* has the push URL pattern together with the label "Push".
C6_EventLabel ==
  card # None =>
    /\ eventWidget.topLabel = <<"Event">>
    /\ eventWidget.text =
         IF eventKey = events.pull_request THEN <<"Pull Request">>
         ELSE IF eventKey \in {events.workflow_dispatch,
                               <<"c","o","n","s","t","r","u","c","t","o","r">>,
                               <<"_","_","p","r","o","t","o","_","_">>}
         THEN <<"Workflow Dispatch">>
         ELSE <<"Push">>

C6_Witness ==
  /\ card # None
  /\ ctx.eventName = Str(<<"w","e","i","r","d","_","e","v","e","n","t">>)
  /\ eventWidget.text = <<"Push">>
  /\ eventUrlOfCard = <<"https://github.com/">> \o ctx.owner \o <<"/">> \o ctx.repo
                        \o <<"/commit/">> \o ctx.sha

\* C7: the "Open Event" URL is https://github.com/{owner}/{repo}/pull/{number}
\* when the event kind is pull_request and .../commit/{sha} for every other
\* event; the "Open Job" URL is the event URL followed by /checks.
C7_Urls ==
  card # None =>
    LET base == <<"https://github.com/">> \o ctx.owner \o <<"/">> \o ctx.repo
        num  == CASE ctx.number = Num(42) -> <<"4","2">>
                  [] ctx.number = Num(7) -> <<"7">>
                  [] OTHER -> <<"undefined">>
    IN  /\ eventUrlOfCard =
             IF eventKey = events.pull_request
             THEN base \o <<"/pull/">> \o num
             ELSE base \o <<"/commit/">> \o ctx.sha
        /\ checksUrlOfCard = eventUrlOfCard \o <<"/checks">>
        /\ statusWidget.button.text = <<"Open Job">>
        /\ eventWidget.button.text = <<"Open Event">>

C7_Witness ==
  /\ card # None
  /\ ctx.eventName = Str(<<"P","u","l","l","_","R","e","q","u","e","s","t">>)
  /\ ctx.number = Num(42)
  /\ checksUrlOfCard = <<"https://github.com/","o","r","g","/","a","p","p",
                         "/pull/","4","2","/checks">>

\* C8: the first section has the Status, Event, Ref and Actor widgets, and
\* after them a Name widget showing the name exactly when the name has 45
\* characters or more; the other two sections are the same for every name.
C8_NameWidget ==
  card # None =>
    LET w == card.sections[1].widgets
    IN  /\ Len(w) = IF Len(vals[1]) >= 45 THEN 5 ELSE 4
        /\ <<w[1].decoratedText.topLabel, w[2].decoratedText.topLabel,
             w[3].decoratedText.topLabel, w[4].decoratedText.topLabel>>
             = << <<"Status">>, <<"Event">>, <<"Ref">>, <<"Actor">> >>
        /\ Len(vals[1]) >= 45 =>
             w[5] = [decoratedText |->
                       [topLabel |-> <<"Name">>, text |-> vals[1], wrapText |-> TRUE]]
        /\ Len(card.sections) = 3
        /\ \A k \in {0, 44, 45} :
             /\ createCard(CardParams(Rep("x", k))).sections[2] = card.sections[2]
             /\ createCard(CardParams(Rep("x", k))).sections[3] = card.sections[3]

C8_Witness ==
  /\ card # None
  /\ Len(vals[1]) = 45
  /\ Len(card.sections[1].widgets) = 5

\* C9 as stated: after a failed POST the failure message of the invocation
\* includes the request body and the error response payload.
C9_FailureMessageHasBody ==
  pc = "done" /\ ret = <<FALSE>> =>
    /\ Len(failed) = 1
    /\ "body" \in DOMAIN failed[1]
    /\ "response" \in DOMAIN failed[1]

\* C9 amended: after a failed POST, sendNotification has written one debug
\* trace that includes the request body and the error response payload (the
\* empty string when there is none); the failure the caller reports is the
\* fixed message, which includes neither; no second POST follows.
C9_FailureDiagnostic ==
  ret = <<FALSE>> =>
    /\ Len(debug) = 1
    /\ debug[1].by = "sendNotification"
    /\ debug[1].body = JSONstringify(requests[1].data)
    /\ debug[1].response =
         JSONstringify(IF response.kind = "response" THEN response.data ELSE Str(<<>>))
    /\ Len(requests) = 1
    /\ pc = "done" => failed = <<GenericFailure>>

C9_Witness ==
  /\ pc = "done"
  /\ ret = <<FALSE>>
  /\ response.kind = "network"
  /\ debug[1].response = JSONstringify(Str(<<>>))

\* C10: the event kind resolved from any event name is pull_request, push or
\* workflow_dispatch - itself when the name is one of the three in any letter
\* case, push otherwise - and the event icon names one of the three assets.
C10_ClosedEventKind ==
  card # None =>
    /\ eventTypeOf(ctx.eventName) =
         IF eventKey \in {events.pull_request, events.push, events.workflow_dispatch}
         THEN Str(eventKey)
         ELSE Str(events.push)
    /\ eventWidget.icon.iconUrl \in
         {EventIcon(events.pull_request), EventIcon(events.push),
          EventIcon(events.workflow_dispatch)}

====
